---- MODULE Spec2Model ----
(***************************************************************************)
(* ImagePerturbEnv (src/src/env.py): a gym environment that holds an image *)
(* and its target class, zeroes one pixel per step, computes a reward from *)
(* the classifier's confidence drop and the sparsity of the change, and    *)
(* starts a new episode when the attack budget is reached.                 *)
(*                                                                         *)
(* Tensors are modelled as functions from (channel, x, y) to an integer    *)
(* intensity level; level 0 is the value 0.0 that a perturbation writes.   *)
(* The batch dimension has size 1 and index 0 throughout, as in the code.  *)
(***************************************************************************)
EXTENDS Integers, Sequences, FiniteSets, TLC

(***************************************************************************)
(* Bounds of the model.                                                    *)
(***************************************************************************)
\* number of (image, label) pairs in the finite dataset
DatasetSize == 3
\* attack_budget is drawn from 1..MaxBudget at construction
MaxBudget == 2
\* total number of step()/reset() calls explored after construction
MaxCalls == 5
\* intensity levels 0..PixelLevels-1 of the dataset's pixels
PixelLevels == 3
\* SpecDecode draws every dimension C, H, W from 1..MaxDim
MaxDim == 3

(***************************************************************************)
(* Tensor shapes.  A shape is the 4-tuple torch.Size([1, C, H, W]);        *)
(* Dim(shape, i) is Python's shape[i] (0-based).                           *)
(***************************************************************************)
Dim(shape, i) == shape[i + 1]

\* the shape of the dataset's images: the model's images are 1 x 2 x 2 x 2
DatasetShape == <<1, 2, 2, 2>>

Coords(shape) ==
    (0 .. Dim(shape, 1) - 1) \X (0 .. Dim(shape, 2) - 1) \X (0 .. Dim(shape, 3) - 1)

\* total_actions = image_shape[1] * image_shape[2] * image_shape[3]
total_actions(shape) == Dim(shape, 1) * Dim(shape, 2) * Dim(shape, 3)

(***************************************************************************)
(* The finite dataset behind the dataloader: DatasetSize pairs, each an    *)
(* image of DatasetShape and an integer label.                             *)
(***************************************************************************)
Dataset ==
    [i \in 1 .. DatasetSize |->
        [image |-> [p \in Coords(DatasetShape) |->
                        (i + p[1] + p[2] + 2 * p[3]) % PixelLevels],
         label |-> i - 1]]

(***************************************************************************)
(* The Image Source.  train.py wraps the finite loader in                  *)
(* EndlessDataLoader (src/utils.py); its state is the number of pairs the  *)
(* current pass over the dataset has already yielded.  A draw returns      *)
(* [raised, index, dataloader]: the exception (or "none"), the position   *)
(* in the dataset of the pair drawn, and the loader's next state.          *)
(***************************************************************************)
\* a draw that does not restart: end-of-data reaches the caller
EndlessNextNoRestart(cursor) ==
    IF cursor >= DatasetSize
    THEN [raised |-> "StopIteration", index |-> 0, dataloader |-> cursor]
    ELSE [raised |-> "none", index |-> cursor + 1, dataloader |-> cursor + 1]

\* next(): the next pair; on exhaustion the pass restarts at the first pair
EndlessNext(cursor) ==
    LET pos == IF cursor >= DatasetSize THEN 0 ELSE cursor
    IN  [raised |-> "none", index |-> pos + 1, dataloader |-> pos + 1]

(***************************************************************************)
(* Action decoding and the pixel write of step().                          *)
(***************************************************************************)
\* decoding with the row stride taken from the height instead of the width
DecodeWrongStride(action, shape) ==
    LET channel == action \div (Dim(shape, 2) * Dim(shape, 3))
        temp    == action % (Dim(shape, 2) * Dim(shape, 3))
    IN  <<channel, temp \div Dim(shape, 2), temp % Dim(shape, 2)>>

\* channel, temp = divmod(action, H * W); x, y = divmod(temp, W)
Decode(action, shape) ==
    LET channel == action \div (Dim(shape, 2) * Dim(shape, 3))
        temp    == action % (Dim(shape, 2) * Dim(shape, 3))
    IN  <<channel, temp \div Dim(shape, 3), temp % Dim(shape, 3)>>

\* tensor indexing accepts an index i of a dimension of size n when
\* -n <= i < n, a negative index counting from the end; else IndexError
IndexOk(i, n) == -n <= i /\ i < n
WrapIndex(i, n) == IF i < 0 THEN i + n ELSE i
\* the write with the channel index dropped: (x, y) is zeroed in every channel
SetPixelAllChannels(img, channel, x, y) ==
    [p \in DOMAIN img |-> IF p[2] = x /\ p[3] = y THEN 0 ELSE img[p]]

\* perturbed_image[0, channel, x, y] = 0, for indices that IndexOk accepts
SetPixel(img, channel, x, y) ==
    [p \in DOMAIN img |-> IF p = <<channel, x, y>> THEN 0 ELSE img[p]]

(***************************************************************************)
(* The reward.  The classifier is an external frozen model; Prob stands    *)
(* for softmax(model(img))[0][cls], a deterministic function of the image  *)
(* and the class.  The reward (p_o - p_p) * exp(-lambda * sparsity) is     *)
(* kept as its two factors' arguments: the confidence drop and sparsity.   *)
(***************************************************************************)
RECURSIVE WeightedSum(_, _, _)
WeightedSum(img, cls, S) ==
    IF S = {} THEN 0
    ELSE LET p == CHOOSE q \in S : TRUE
         IN  img[p] * (1 + ((p[1] + 2 * p[2] + p[3] + cls) % 3))
             + WeightedSum(img, cls, S \ {p})

Prob(img, cls) == WeightedSum(img, cls, DOMAIN img)

\* torch.nonzero(perturbed_image - original_image).size(0)
Sparsity(original_image, perturbed_image) ==
    Cardinality({p \in DOMAIN original_image : perturbed_image[p] /= original_image[p]})

compute_reward(original_image, perturbed_image, target_class) ==
    [drop     |-> Prob(original_image, target_class) - Prob(perturbed_image, target_class),
     sparsity |-> Sparsity(original_image, perturbed_image)]

(***************************************************************************)
(* The environment object.  self is the record of its fields; the field    *)
(* image_origin is bookkeeping, not a field of the object: the position in *)
(* the dataset of the pair whose image the tensor in self.image is, or is  *)
(* a perturbed clone of.                                                   *)
(***************************************************************************)
\* continue until attack budget reached, with the comparison off by one
BudgetReachedStrict(count, budget) == count > budget

\* done = self.current_attack_count >= self.attack_budget
BudgetReached(count, budget) == count >= budget

\* a reset that draws the new pair and keeps the old counter
resetKeepCount(self) ==
    LET d == EndlessNext(self.dataloader)
    IN  IF d.raised /= "none"
        THEN [raised |-> d.raised, self |-> self, ret |-> self.image, index |-> 0]
        ELSE LET s == [self EXCEPT !.dataloader = d.dataloader,
                                   !.image = Dataset[d.index].image,
                                   !.target_class = Dataset[d.index].label,
                                   !.image_origin = d.index,
                                   !.original_image = Dataset[d.index].image]
             IN  [raised |-> "none", self |-> s, ret |-> s.image, index |-> d.index]

\* a reset that calls next() once for the image and once more for the label
resetDrawTwice(self) ==
    LET d1 == EndlessNext(self.dataloader)
        d2 == EndlessNext(d1.dataloader)
    IN  IF d1.raised /= "none" \/ d2.raised /= "none"
        THEN [raised |-> "StopIteration", self |-> self, ret |-> self.image, index |-> 0]
        ELSE LET s == [self EXCEPT !.dataloader = d2.dataloader,
                                   !.image = Dataset[d1.index].image,
                                   !.target_class = Dataset[d2.index].label,
                                   !.image_origin = d1.index,
                                   !.original_image = Dataset[d1.index].image,
                                   !.current_attack_count = 0]
             IN  [raised |-> "none", self |-> s, ret |-> s.image, index |-> d2.index]

\* reset(): draw a pair, snapshot the image, zero the counter, return the image
reset(self) ==
    LET d == EndlessNext(self.dataloader)
    IN  IF d.raised /= "none"
        THEN [raised |-> d.raised, self |-> self, ret |-> self.image, index |-> 0]
        ELSE LET s == [self EXCEPT !.dataloader = d.dataloader,
                                   !.image = Dataset[d.index].image,
                                   !.target_class = Dataset[d.index].label,
                                   !.image_origin = d.index,
                                   !.original_image = Dataset[d.index].image,
                                   !.current_attack_count = 0]
             IN  [raised |-> "none", self |-> s, ret |-> s.image, index |-> d.index]
NoReward == [drop |-> 0, sparsity |-> 0]

\* what a step() call that raised leaves behind: the counter was incremented
\* on entry, nothing was returned
StepRaised(self, exc, coord, resets) ==
    [raised |-> exc, self |-> self, obs |-> self.image, reward |-> NoReward,
     done |-> FALSE, coord |-> coord, resets |-> resets]

\* a step that computes the reward once the episode's reset has been done
stepRewardAfterReset(self, action) ==
    LET counted   == [self EXCEPT !.current_attack_count = @ + 1]
        coord     == Decode(action, self.image_shape)
        done      == BudgetReached(counted.current_attack_count, counted.attack_budget)
    IN  IF ~IndexOk(coord[1], Dim(self.image_shape, 1))
        THEN StepRaised(counted, "IndexError", coord, <<>>)
        ELSE
        LET perturbed_image ==
                SetPixel(self.image, WrapIndex(coord[1], Dim(self.image_shape, 1)),
                         coord[2], coord[3])
            r      == reset(counted)
            after  == IF done THEN r.self ELSE counted
            reward == compute_reward(after.image, perturbed_image, after.target_class)
        IN  IF done /\ r.raised /= "none"
            THEN StepRaised(counted, r.raised, coord, <<>>)
            ELSE [raised |-> "none",
                  self   |-> [after EXCEPT !.image = perturbed_image,
                                           !.image_origin = self.image_origin],
                  obs    |-> perturbed_image, reward |-> reward, done |-> done,
                  coord  |-> coord, resets |-> IF done THEN <<r>> ELSE <<>>]

\* a step that computes the reward against the episode's original image
stepRewardFromOriginal(self, action) ==
    LET counted   == [self EXCEPT !.current_attack_count = @ + 1]
        coord     == Decode(action, self.image_shape)
    IN  IF ~IndexOk(coord[1], Dim(self.image_shape, 1))
        THEN StepRaised(counted, "IndexError", coord, <<>>)
        ELSE
        LET perturbed_image ==
                SetPixel(self.image, WrapIndex(coord[1], Dim(self.image_shape, 1)),
                         coord[2], coord[3])
            reward == compute_reward(self.original_image, perturbed_image,
                                     self.target_class)
            done   == BudgetReached(counted.current_attack_count, counted.attack_budget)
            r      == reset(counted)
            after  == IF done THEN r.self ELSE counted
        IN  IF done /\ r.raised /= "none"
            THEN StepRaised(counted, r.raised, coord, <<>>)
            ELSE [raised |-> "none",
                  self   |-> [after EXCEPT !.image = perturbed_image,
                                           !.image_origin = self.image_origin],
                  obs    |-> perturbed_image, reward |-> reward, done |-> done,
                  coord  |-> coord, resets |-> IF done THEN <<r>> ELSE <<>>]

\* step(action): returns [raised, self, obs, reward, done]; coord is the
\* decoded action and resets the result of the reset() call made inside, if any
step(self, action) ==
    LET counted   == [self EXCEPT !.current_attack_count = @ + 1]
        coord     == Decode(action, self.image_shape)
    IN  IF ~IndexOk(coord[1], Dim(self.image_shape, 1))
        THEN StepRaised(counted, "IndexError", coord, <<>>)
        ELSE
        LET perturbed_image ==
                SetPixel(self.image, WrapIndex(coord[1], Dim(self.image_shape, 1)),
                         coord[2], coord[3])
            reward == compute_reward(self.image, perturbed_image, self.target_class)
            done   == BudgetReached(counted.current_attack_count, counted.attack_budget)
            r      == reset(counted)
            after  == IF done THEN r.self ELSE counted
        IN  IF done /\ r.raised /= "none"
            THEN StepRaised(counted, r.raised, coord, <<>>)
            ELSE [raised |-> "none",
                  \* self.image = perturbed_image, a clone of the pre-step image
                  self   |-> [after EXCEPT !.image = perturbed_image,
                                           !.image_origin = self.image_origin],
                  obs    |-> perturbed_image, reward |-> reward, done |-> done,
                  coord  |-> coord, resets |-> IF done THEN <<r>> ELSE <<>>]

\* __init__(dataloader, model, attack_budget): the first pair is drawn from a
\* fresh loader; image_shape is the shape of the first image
init(budget) ==
    LET d == EndlessNext(0)
    IN  [raised |-> d.raised, index |-> d.index,
         self |-> [dataloader |-> d.dataloader,
                   image |-> Dataset[d.index].image,
                   target_class |-> Dataset[d.index].label,
                   image_origin |-> d.index,
                   original_image |-> Dataset[d.index].image,
                   image_shape |-> DatasetShape,
                   attack_budget |-> budget,
                   current_attack_count |-> 0]]
(***************************************************************************)
(* State.  The first eight variables are the environment's fields (with    *)
(* the bookkeeping field image_origin); the others record the last call    *)
(* and its history for the properties below.                               *)
(*   ret        the last call: its operation, the exception it raised or   *)
(*              "none", its action, and what it returned; nth is the       *)
(*              number of the step call within its episode                 *)
(*   pre        the environment's fields when the last call was made       *)
(*   calls      step calls made since construction or the last reset()     *)
(*   n_calls    step and reset calls made since construction               *)
(*   drawn      the number of pairs drawn so far, the dataset position of  *)
(*              the last one, and whether any draw raised                  *)
(*   lastReset  the most recent reset() call, made by the caller or inside *)
(*              step: the loader's state before it, and the fields and the *)
(*              returned observation when it returned                      *)
(*   tally      the number of step calls that returned done = TRUE and the *)
(*              number of reset() calls the caller made                    *)
(*   dec        the state of the decoding specification SpecDecode         *)
(***************************************************************************)
VARIABLES dataloader, image, target_class, original_image, image_shape,
          attack_budget, current_attack_count, image_origin,
          ret, pre, calls, n_calls, drawn, lastReset, tally, dec

envVars == <<dataloader, image, target_class, original_image, image_shape,
             attack_budget, current_attack_count, image_origin>>
histVars == <<ret, pre, calls, n_calls, drawn, lastReset, tally>>
vars == <<envVars, histVars, dec>>

Self ==
    [dataloader |-> dataloader, image |-> image, target_class |-> target_class,
     image_origin |-> image_origin, original_image |-> original_image,
     image_shape |-> image_shape, attack_budget |-> attack_budget,
     current_attack_count |-> current_attack_count]

SetSelf(s) ==
    /\ dataloader' = s.dataloader
    /\ image' = s.image
    /\ target_class' = s.target_class
    /\ image_origin' = s.image_origin
    /\ original_image' = s.original_image
    /\ image_shape' = s.image_shape
    /\ attack_budget' = s.attack_budget
    /\ current_attack_count' = s.current_attack_count

\* the actions a caller may pass: every action of the action space, and
\* outside it the two nearest integers on each side of -total_actions, the
\* largest negative integer, and total_actions itself
ActionInputs ==
    LET n == total_actions(DatasetShape)
    IN  (0 .. n - 1) \cup {0 - n - 1, 0 - n, 0 - 1, n}

DecIdle == [pc |-> "idle", shape |-> DatasetShape, a |-> 0, b |-> 0,
            ca |-> <<0, 0, 0>>, cb |-> <<0, 0, 0>>]

\* the state after construction with the given budget
Constructed(budget) ==
    LET c == init(budget)
    IN  /\ dataloader = c.self.dataloader
        /\ image = c.self.image
        /\ target_class = c.self.target_class
        /\ image_origin = c.self.image_origin
        /\ original_image = c.self.original_image
        /\ image_shape = c.self.image_shape
        /\ attack_budget = c.self.attack_budget
        /\ current_attack_count = c.self.current_attack_count
        /\ ret = [op |-> "init", raised |-> c.raised, action |-> 0,
                  obs |-> c.self.image, reward |-> NoReward, done |-> FALSE,
                  coord |-> <<0, 0, 0>>, nth |-> 0]
        /\ pre = c.self
        /\ calls = 0
        /\ n_calls = 0
        /\ drawn = [count |-> 1, index |-> c.index, raised |-> c.raised /= "none"]
        /\ lastReset = [made |-> FALSE, raised |-> "none", before |-> 0,
                        self |-> c.self, ret |-> c.self.image]
        /\ tally = [done_steps |-> 0, resets |-> 0]

Init ==
    /\ \E budget \in 1 .. MaxBudget : Constructed(budget)
    /\ dec = DecIdle

\* the caller calls step(action)
Step ==
    /\ n_calls < MaxCalls
    /\ \E action \in ActionInputs :
        LET r == step(Self, action)
            made == r.resets /= <<>>
        IN  /\ SetSelf(r.self)
            /\ ret' = [op |-> "step", raised |-> r.raised, action |-> action,
                       obs |-> r.obs, reward |-> r.reward, done |-> r.done,
                       coord |-> r.coord, nth |-> calls + 1]
            /\ pre' = Self
            /\ calls' = IF made THEN 0 ELSE calls + 1
            /\ drawn' = IF made
                        THEN [count |-> drawn.count + 1, index |-> r.resets[1].index,
                              raised |-> drawn.raised]
                        ELSE IF r.raised = "StopIteration"
                             THEN [drawn EXCEPT !.raised = TRUE]
                             ELSE drawn
            /\ lastReset' = IF made
                            THEN [made |-> TRUE, raised |-> r.resets[1].raised,
                                  before |-> dataloader,
                                  self |-> r.resets[1].self, ret |-> r.resets[1].ret]
                            ELSE lastReset
            /\ tally' = IF r.raised = "none" /\ r.done
                        THEN [tally EXCEPT !.done_steps = @ + 1]
                        ELSE tally
    /\ n_calls' = n_calls + 1
    /\ UNCHANGED dec

\* the caller calls reset()
Reset ==
    /\ n_calls < MaxCalls
    /\ LET r == reset(Self)
       IN  /\ SetSelf(r.self)
           /\ ret' = [op |-> "reset", raised |-> r.raised, action |-> 0,
                      obs |-> r.ret, reward |-> NoReward, done |-> FALSE,
                      coord |-> <<0, 0, 0>>, nth |-> 0]
           /\ pre' = Self
           /\ calls' = 0
           /\ drawn' = IF r.raised = "none"
                       THEN [count |-> drawn.count + 1, index |-> r.index,
                             raised |-> drawn.raised]
                       ELSE [drawn EXCEPT !.raised = TRUE]
           /\ lastReset' = [made |-> TRUE, raised |-> r.raised,
                            before |-> dataloader, self |-> r.self, ret |-> r.ret]
           /\ tally' = IF r.raised = "none"
                       THEN [tally EXCEPT !.resets = @ + 1]
                       ELSE tally
    /\ n_calls' = n_calls + 1
    /\ UNCHANGED dec

Next == Step \/ Reset

Spec == Init /\ [][Next]_vars

(***************************************************************************)
(* The decoding of actions on its own, for every shape 1 x C x H x W with  *)
(* C, H, W in 1..MaxDim: two actions of the action space are drawn and     *)
(* decoded as step() decodes them.                                         *)
(***************************************************************************)
Shapes == {<<1, c, h, w>> : c \in 1 .. MaxDim, h \in 1 .. MaxDim, w \in 1 .. MaxDim}

InitDecode ==
    /\ Constructed(1)
    /\ \E shape \in Shapes :
         \E a \in 0 .. total_actions(shape) - 1, b \in 0 .. total_actions(shape) - 1 :
            dec = [pc |-> "input", shape |-> shape, a |-> a, b |-> b,
                   ca |-> <<0, 0, 0>>, cb |-> <<0, 0, 0>>]

DecodeActions ==
    /\ dec.pc = "input"
    /\ dec' = [dec EXCEPT !.pc = "decoded",
                          !.ca = Decode(dec.a, dec.shape),
                          !.cb = Decode(dec.b, dec.shape)]
    /\ UNCHANGED <<envVars, histVars>>

SpecDecode == InitDecode /\ [][DecodeActions]_vars
(***************************************************************************)
(* Properties.                                                             *)
(***************************************************************************)
StepReturned == ret.op = "step" /\ ret.raised = "none"
InActionSpace(a) == a \in 0 .. total_actions(image_shape) - 1

\* the coordinate the pixel write of the last step addressed
Written ==
    LET c == Decode(ret.action, image_shape)
    IN  <<WrapIndex(c[1], Dim(image_shape, 1)), c[2], c[3]>>

\* the positions where the returned observation differs from the pre-step image
Changed == {p \in DOMAIN pre.image : ret.obs[p] /= pre.image[p]}

\* C1: counting the step calls of an episode from construction or from a
\* reset, every call before the attack_budget-th returns done = FALSE, and the
\* attack_budget-th returns done = TRUE with the step counter back at 0.
C1_BudgetEndsEpisode ==
    StepReturned =>
        /\ ret.nth < attack_budget => ~ret.done
        /\ ret.nth = attack_budget => ret.done /\ current_attack_count = 0

C1_Witness ==
    /\ StepReturned /\ ret.done
    /\ attack_budget = 2 /\ ret.nth = 2
    /\ lastReset.made /\ n_calls = 4

\* C2: after a step call returns done = TRUE, the environment holds the image
\* freshly drawn from the Image Source.
C2_HoldsFreshImage ==
    (StepReturned /\ ret.done) => image = Dataset[drawn.index].image

\* C3: in every reachable state the held target class is the label the Image
\* Source supplied with the image the held image derives from.
C3_TargetMatchesImage == target_class = Dataset[image_origin].label

\* C4: on the step that ends an episode, the returned observation is the
\* pre-step image with the action's pixel zeroed and the reward is computed
\* from the pre-reset image and pre-reset target class, although the reset has
\* been done (new target class, counter 0) when the call returns.
C4_TerminalStepReturnsPreReset ==
    (StepReturned /\ ret.done) =>
        /\ ret.obs = [p \in DOMAIN pre.image |-> IF p = Written THEN 0 ELSE pre.image[p]]
        /\ ret.reward = compute_reward(pre.image, ret.obs, pre.target_class)
        /\ target_class = Dataset[drawn.index].label
        /\ original_image = Dataset[drawn.index].image
        /\ current_attack_count = 0

C4_Witness ==
    /\ StepReturned /\ ret.done
    /\ target_class /= pre.target_class
    /\ ret.reward.sparsity = 1
    /\ ret.obs /= original_image

\* C5 as stated: for an action of the action space the returned image differs
\* from the pre-step image at exactly the decoded coordinate, where it is 0.
C5_DiffersAtExactlyOne ==
    (StepReturned /\ InActionSpace(ret.action)) =>
        /\ ret.obs[Decode(ret.action, image_shape)] = 0
        /\ Changed = {Decode(ret.action, image_shape)}

\* C5 as amended: for an action of the action space the returned image is 0 at
\* the decoded coordinate and equal to the pre-step image everywhere else; it
\* differs from the pre-step image there exactly when the pre-step value was
\* not already 0, and nowhere otherwise.
C5_ZeroAtDecodedEqualElsewhere ==
    (StepReturned /\ InActionSpace(ret.action)) =>
        LET coord == Decode(ret.action, image_shape)
        IN  /\ coord \in DOMAIN pre.image
            /\ ret.obs[coord] = 0
            /\ \A p \in DOMAIN pre.image : p /= coord => ret.obs[p] = pre.image[p]
            /\ Changed = IF pre.image[coord] /= 0 THEN {coord} ELSE {}

C5_Witness ==
    /\ StepReturned /\ InActionSpace(ret.action)
    /\ pre.image[Decode(ret.action, image_shape)] /= 0
    /\ Changed = {Decode(ret.action, image_shape)}
    /\ pre.image /= pre.original_image

\* C6: a step zeroes the selected (x, y) coordinate in all channels, so it
\* modifies one pixel per channel.
C6_AllChannelsZeroed ==
    (StepReturned /\ InActionSpace(ret.action)) =>
        \A c \in 0 .. Dim(image_shape, 1) - 1 : ret.obs[<<c, Written[2], Written[3]>>] = 0

\* C7: step(action) raises for every integer action outside the action space,
\* negative ones included.
C7_OutOfRangeRaises ==
    (ret.op = "step" /\ ~InActionSpace(ret.action)) => ret.raised /= "none"

\* C8: every draw the environment makes succeeds, also after more draws than
\* the dataset has pairs: the k-th draw returns pair ((k - 1) mod N) + 1 and no
\* call ends with end-of-data.
C8_DrawsNeverExhaust ==
    /\ ~drawn.raised
    /\ ret.raised /= "StopIteration"
    /\ lastReset.raised = "none"
    /\ drawn.index = ((drawn.count - 1) % DatasetSize) + 1

C8_Witness ==
    /\ drawn.count > DatasetSize
    /\ drawn.index = 1
    /\ StepReturned /\ ret.done

\* C9: when a reset() call returns, made by the caller or inside step, the
\* counter is 0, image and target class are the pair the Image Source yields
\* next, the original-image snapshot equals the image, and the image is what
\* reset returns; after a reset() made by the caller that is the state.
C9_ResetPostcondition ==
    /\ lastReset.made =>
        LET pair == Dataset[EndlessNext(lastReset.before).index]
        IN  /\ lastReset.raised = "none"
            /\ lastReset.self.current_attack_count = 0
            /\ lastReset.self.image = pair.image
            /\ lastReset.self.target_class = pair.label
            /\ lastReset.self.original_image = lastReset.self.image
            /\ lastReset.ret = lastReset.self.image
    /\ ret.op = "reset" =>
        /\ Self = lastReset.self
        /\ ret.obs = image
        /\ lastReset.before = pre.dataloader

C9_Witness ==
    /\ ret.op = "reset"
    /\ pre.current_attack_count > 0
    /\ pre.image /= pre.original_image
    /\ image /= pre.original_image

\* the inverse formula: channel * H * W + row * W + col
Encode(coord, shape) ==
    coord[1] * Dim(shape, 2) * Dim(shape, 3) + coord[2] * Dim(shape, 3) + coord[3]

\* C10: for every action a of the action space, decoding gives a coordinate
\* within the image's extent, re-encoding the coordinate gives a, and two
\* distinct actions decode to distinct coordinates.
C10_DecodeBijective ==
    dec.pc = "decoded" =>
        /\ dec.ca \in Coords(dec.shape)
        /\ Encode(dec.ca, dec.shape) = dec.a
        /\ dec.a /= dec.b => dec.ca /= dec.cb

C10_Witness ==
    /\ dec.pc = "decoded"
    /\ dec.a /= dec.b
    /\ Dim(dec.shape, 2) /= Dim(dec.shape, 3)
    /\ dec.ca[1] > 0 /\ dec.ca[2] > 0 /\ dec.ca[3] > 0
\* C11: the reward of a step is computed from the image held when the step
\* was called and the image the step returns, not from the episode's original
\* image: its sparsity is the number of positions this step changed, 0 or 1,
\* also when the returned image differs from the original in more positions.
C11_RewardFromPreviousImage ==
    StepReturned =>
        /\ ret.reward = compute_reward(pre.image, ret.obs, pre.target_class)
        /\ ret.reward.sparsity = Cardinality(Changed)
        /\ ret.reward.sparsity \in {0, 1}

C11_Witness ==
    /\ StepReturned
    /\ pre.current_attack_count >= 1
    /\ pre.image_origin = pre.dataloader
    /\ ret.reward.sparsity = 1
    /\ Sparsity(pre.original_image, ret.obs) >= 2

\* the loader's state after k more draws
CursorAfter(cursor, k) == ((cursor - 1 + k) % DatasetSize) + 1

\* C12: the environment draws one pair at construction, one in each step call
\* that returns done = TRUE, one in each reset() call of the caller and none in
\* a step call that returns done = FALSE, so the pairs consumed number
\* 1 + (done = TRUE steps) + (reset() calls).
C12_DrawsCounted ==
    /\ drawn.count = 1 + tally.done_steps + tally.resets
    /\ dataloader = CursorAfter(1, tally.done_steps + tally.resets)
    /\ ret.op = "init" => dataloader = 1 /\ drawn.count = 1
    /\ (StepReturned /\ ret.done) => dataloader = CursorAfter(pre.dataloader, 1)
    /\ (StepReturned /\ ~ret.done) => dataloader = pre.dataloader
    /\ ret.op = "reset" => dataloader = CursorAfter(pre.dataloader, 1)

C12_Witness ==
    /\ StepReturned /\ ~ret.done
    /\ tally.done_steps >= 1
    /\ tally.resets >= 1
    /\ drawn.count = 3
====
